---- MODULE Spec2Model ----
(***************************************************************************)
(* SpriteVisu (HeatmapMultiVisu.py): conversion of a SPRITE cluster file   *)
(* into per-chromosome-pair contact lists, contact files and a relational  *)
(* table of raw reads.                                                     *)
(*                                                                         *)
(* Text is modelled as sequences of one-character strings, so that the     *)
(* splitting, integer parsing, key building and line formatting of the     *)
(* program are computed rather than assumed.                               *)
(***************************************************************************)
EXTENDS Integers, Sequences, FiniteSets, TLC

(* ------------------------------ bounds -------------------------------- *)

\* Largest number of lines read from the cluster file in one run.
MaxLines == 2

\* Largest total number of read tokens over the lines of the cluster file.
MaxTokens == 4

(* ------------------------- text primitives ---------------------------- *)

Digits == <<"0", "1", "2", "3", "4", "5", "6", "7", "8", "9">>

IsDigit(c) == \E i \in 1..10 : Digits[i] = c

DigitVal(c) == (CHOOSE i \in 1..10 : Digits[i] = c) - 1

\* Code point of a character, for the characters of the modelled alphabet.
Ord(c) ==
    CASE c = "+" -> 43
      [] c = "," -> 44
      [] c = "-" -> 45
      [] IsDigit(c) -> 48 + DigitVal(c)
      [] c = ":" -> 58
      [] c = "_" -> 95
      [] c = "a" -> 97
      [] c = "b" -> 98
      [] c = "r" -> 114
      [] c = "x" -> 120

\* Python's str > str: code-point lexicographic order, a proper prefix is smaller.
RECURSIVE StrGreater(_, _)
StrGreater(s, t) ==
    IF s = <<>> THEN FALSE
    ELSE IF t = <<>> THEN TRUE
    ELSE IF Head(s) # Head(t) THEN Ord(Head(s)) > Ord(Head(t))
    ELSE StrGreater(Tail(s), Tail(t))

\* Positions of the separator character in s.
Occurrences(s, sep) == {i \in 1..Len(s) : s[i] = sep}

Max(S) == CHOOSE x \in S : \A y \in S : y <= x

Min(S) == CHOOSE x \in S : \A y \in S : x <= y

\* str.split(sep): all the pieces between separators.
RECURSIVE Split(_, _)
Split(s, sep) ==
    IF Occurrences(s, sep) = {} THEN <<s>>
    ELSE LET i == Min(Occurrences(s, sep))
         IN  <<SubSeq(s, 1, i - 1)>> \o Split(SubSeq(s, i + 1, Len(s)), sep)

\* str.split(sep, 1): at most one cut, at the first separator.
Split1(s, sep) ==
    IF Occurrences(s, sep) = {} THEN <<s>>
    ELSE LET i == Min(Occurrences(s, sep))
         IN  <<SubSeq(s, 1, i - 1), SubSeq(s, i + 1, Len(s))>>

\* str.rsplit(sep, 1): at most one cut, at the last separator.
RSplit1(s, sep) ==
    IF Occurrences(s, sep) = {} THEN <<s>>
    ELSE LET i == Max(Occurrences(s, sep))
         IN  <<SubSeq(s, 1, i - 1), SubSeq(s, i + 1, Len(s))>>

\* The digit part of a literal accepted by int(): digits, with single
\* underscores allowed between digits.
IsDigitRun(s) ==
    /\ Len(s) > 0
    /\ IsDigit(s[1])
    /\ IsDigit(s[Len(s)])
    /\ \A i \in 1..Len(s) : IsDigit(s[i]) \/ s[i] = "_"
    /\ \A i \in 1..(Len(s) - 1) : ~(s[i] = "_" /\ s[i + 1] = "_")

HasSign(s) == Len(s) > 0 /\ s[1] \in {"+", "-"}

Unsigned(s) == IF HasSign(s) THEN Tail(s) ELSE s

\* TRUE iff int(s) does not raise ValueError.
IsIntLiteral(s) == IsDigitRun(Unsigned(s))

RECURSIVE DigitRunVal(_, _)
DigitRunVal(s, acc) ==
    IF s = <<>> THEN acc
    ELSE IF Head(s) = "_" THEN DigitRunVal(Tail(s), acc)
    ELSE DigitRunVal(Tail(s), 10 * acc + DigitVal(Head(s)))

\* int(s) for a literal that int() accepts.
ParseInt(s) ==
    LET v == DigitRunVal(Unsigned(s), 0)
    IN  IF HasSign(s) /\ s[1] = "-" THEN 0 - v ELSE v

RECURSIVE NatToStr(_)
NatToStr(n) ==
    IF n < 10 THEN <<Digits[n + 1]>>
    ELSE NatToStr(n \div 10) \o <<Digits[(n % 10) + 1]>>

\* str(n) of an int, as an f-string renders it.
IntToStr(n) == IF n < 0 THEN <<"-">> \o NatToStr(0 - n) ELSE NatToStr(n)

\* sep.join(parts)
RECURSIVE Join(_, _)
Join(parts, sep) ==
    IF parts = <<>> THEN <<>>
    ELSE IF Len(parts) = 1 THEN parts[1]
    ELSE parts[1] \o sep \o Join(Tail(parts), sep)

(* ------------------------------ inputs -------------------------------- *)

\* Chromosome names: "ab" sorts before "b".
ChromAB == <<"a", "b">>

ChromB == <<"b">>

\* Key sets of the "chromosomes" object of the genomic size file.
Registries == {{ChromAB, ChromB}, {ChromAB}}

\* Values of the min_cluster / max_cluster arguments.
SizeBounds == {<<2, 3>>, <<3, 3>>}

\* First token of a cluster line.
ClusterIds == {<<"x">>}

\* Read tokens in the format name_chrom:start-end.
FullB1 == <<"r", "_", "b", ":", "1", "-", "5">>

FullB2 == <<"r", "_", "b", ":", "2", "-", "5">>

FullB3 == <<"r", "_", "b", ":", "0", "3", "-", "5">>

FullAB1 == <<"r", "_", "a", "b", ":", "1", "-", "5">>

FullTokens == {FullB1, FullB2, FullB3, FullAB1}

\* A token of that shape whose end is not a number.
FullEndX == <<"r", "_", "b", ":", "1", "-", "x">>

\* Read tokens in the format chrom:start.
StartB1 == <<"b", ":", "1">>

StartB2 == <<"b", ":", "2">>

StartB3 == <<"b", ":", "0", "3">>

StartAB1 == <<"a", "b", ":", "1">>

StartOnlyTokens == {StartB1, StartB2, StartB3, StartAB1}

\* Read tokens a cluster line may hold: the tokens of the selected format,
\* one token of the other format and, in the full format, FullEndX.
ReadTokens(so) ==
    IF so THEN StartOnlyTokens \cup {FullB1}
    ELSE FullTokens \cup {StartB1, FullEndX}

(* ------------------------------ state --------------------------------- *)

VARIABLES
    chromosome_list,   \* self._chromosome_list
    start_only,        \* self._start_only
    min_cluster_size,  \* self._min_cluster_size
    max_cluster_size,  \* self._max_cluster_size
    contact_lists,     \* self._contact_lists: key -> sequence of lines
    pc,                \* position of generate_hsv
    cluster_file,      \* the lines read so far, each as its list of tokens
    meta_written,      \* meta.json exists in the output directory
    db_created,        \* the database file and its table exist
    pending,           \* rows inserted in the open transaction
    table,             \* committed rows of table contacts
    files,             \* contact files of the output directory: name -> text
    last_call          \* arguments of the last direct call of add_contact_to_list

vars == <<chromosome_list, start_only, min_cluster_size, max_cluster_size, contact_lists, pc,
          cluster_file, meta_written, db_created, pending, table, files,
          last_call>>

\* The attributes that __init__ sets from its arguments and nothing changes.
args == <<chromosome_list, start_only, min_cluster_size, max_cluster_size>>

\* data_split of the line read last.
data_split == cluster_file[Len(cluster_file)]

\* reads = data_split[1:]
ReadsOf(line) == IF line = <<>> THEN <<>> ELSE Tail(line)

RECURSIVE TokenCount(_)
TokenCount(lines) ==
    IF lines = <<>> THEN 0 ELSE Len(ReadsOf(Head(lines))) + TokenCount(Tail(lines))

NoCall == [made |-> FALSE, n |-> 0]

(* --------------------------- parsing a read --------------------------- *)

Failed == [ok |-> FALSE]

\* Lines 134-138: the full format. Unpacking a split of the wrong length and
\* int() of a non-literal raise ValueError.
ParseFull(read) ==
    LET nc == RSplit1(read, "_")
    IN  IF Len(nc) # 2 THEN Failed
        ELSE LET cp == Split(nc[2], ":")
             IN  IF Len(cp) # 2 THEN Failed
                 ELSE LET se == Split(cp[2], "-")
                      IN  IF Len(se) # 2 THEN Failed
                          ELSE IF ~IsIntLiteral(se[1]) THEN Failed
                          ELSE [ok |-> TRUE, chrom |-> cp[1],
                                start |-> ParseInt(se[1]),
                                row |-> <<cp[1], se[1], se[2]>>]

\* Lines 141-143: the start-only format.
ParseStartOnly(read) ==
    LET cs == Split1(read, ":")
    IN  IF Len(cs) # 2 THEN Failed
        ELSE IF ~IsIntLiteral(cs[2]) THEN Failed
        ELSE [ok |-> TRUE, chrom |-> cs[1], start |-> ParseInt(cs[2]),
              row |-> <<cs[1], cs[2]>>]

ParseRead(read, so) == IF so THEN ParseStartOnly(read) ELSE ParseFull(read)

\* bins = collections.defaultdict(set): the chromosomes in insertion order
\* and the set of starts of each.
EmptyBins == [order |-> <<>>, sets |-> <<>>]

InBins(bins, chrom) == \E i \in 1..Len(bins.order) : bins.order[i] = chrom

BinIndex(bins, chrom) == CHOOSE i \in 1..Len(bins.order) : bins.order[i] = chrom

\* bins[chrom].add(start)
BinsAdd(bins, chrom, start) ==
    IF InBins(bins, chrom)
    THEN [bins EXCEPT !.sets[BinIndex(bins, chrom)] = @ \cup {start}]
    ELSE [order |-> Append(bins.order, chrom), sets |-> Append(bins.sets, {start})]

\* Mutant: a row is inserted only for a read of a registered chromosome.
RECURSIVE ReadLoop_RegisteredRows(_, _, _, _, _)
ReadLoop_RegisteredRows(reads, cluster_id, so, bins, rows) ==
    IF reads = <<>> THEN [ok |-> TRUE, bins |-> bins, rows |-> rows]
    ELSE LET r == ParseRead(Head(reads), so)
         IN  IF ~r.ok THEN [ok |-> FALSE, bins |-> bins, rows |-> rows]
             ELSE ReadLoop_RegisteredRows(Tail(reads), cluster_id, so,
                      BinsAdd(bins, r.chrom, r.start),
                      IF r.chrom \in chromosome_list
                      THEN Append(rows, Append(r.row, cluster_id))
                      ELSE rows)

\* Mutant: a read that does not parse is skipped and the loop goes on.
RECURSIVE ReadLoop_SkipUnparsable(_, _, _, _, _)
ReadLoop_SkipUnparsable(reads, cluster_id, so, bins, rows) ==
    IF reads = <<>> THEN [ok |-> TRUE, bins |-> bins, rows |-> rows]
    ELSE LET r == ParseRead(Head(reads), so)
         IN  IF ~r.ok
             THEN ReadLoop_SkipUnparsable(Tail(reads), cluster_id, so, bins, rows)
             ELSE ReadLoop_SkipUnparsable(Tail(reads), cluster_id, so,
                      BinsAdd(bins, r.chrom, r.start),
                      Append(rows, Append(r.row, cluster_id)))

\* Lines 131-143: the loop over the reads of one cluster. It stops at the
\* first read that raises; the rows of the reads before it are inserted.
RECURSIVE ReadLoop(_, _, _, _, _)
ReadLoop(reads, cluster_id, so, bins, rows) ==
    IF reads = <<>> THEN [ok |-> TRUE, bins |-> bins, rows |-> rows]
    ELSE LET r == ParseRead(Head(reads), so)
         IN  IF ~r.ok THEN [ok |-> FALSE, bins |-> bins, rows |-> rows]
             ELSE ReadLoop(Tail(reads), cluster_id, so,
                           BinsAdd(bins, r.chrom, r.start),
                           Append(rows, Append(r.row, cluster_id)))

(* ------------------------- contact generation ------------------------- *)

\* chrom in self._chromosome_list
ValidChrom(chrom) == chrom \in chromosome_list

\* f"{chrom1}-{chrom2}"
ContactKey(chrom1, chrom2) == chrom1 \o <<"-">> \o chrom2

\* f"{start1},{start2},{inc2}"
ContactLine(start1, start2, inc2) ==
    IntToStr(start1) \o <<",">> \o IntToStr(start2) \o <<",">> \o IntToStr(inc2)

\* Mutant: the line replaces the list of the key.
AppendLine_Overwrite(lists, key, line) ==
    [k \in DOMAIN lists \cup {key} |-> IF k = key THEN <<line>> ELSE lists[k]]

\* self._contact_lists[key].append(line) on a defaultdict(list)
AppendLine(lists, key, line) ==
    IF key \in DOMAIN lists
    THEN [lists EXCEPT ![key] = Append(@, line)]
    ELSE [k \in DOMAIN lists \cup {key} |->
            IF k = key THEN <<line>> ELSE lists[k]]

\* Mutant: the chromosome names are exchanged, the positions are not.
add_contact_to_list_NoStartSwap(lists, cluster_id, chrom1, start1, chrom2, start2, inc1, inc2) ==
    IF ~ValidChrom(chrom1) \/ ~ValidChrom(chrom2) THEN lists
    ELSE IF StrGreater(chrom1, chrom2)
         THEN AppendLine(lists, ContactKey(chrom2, chrom1),
                         ContactLine(start1, start2, inc2))
         ELSE AppendLine(lists, ContactKey(chrom1, chrom2),
                         ContactLine(start1, start2, inc2))

\* Mutant: the contact is dropped only when both chromosomes are unregistered.
add_contact_to_list_DropBoth(lists, cluster_id, chrom1, start1, chrom2, start2, inc1, inc2) ==
    IF ~ValidChrom(chrom1) /\ ~ValidChrom(chrom2) THEN lists
    ELSE IF StrGreater(chrom1, chrom2)
         THEN AppendLine(lists, ContactKey(chrom2, chrom1),
                         ContactLine(start2, start1, inc2))
         ELSE AppendLine(lists, ContactKey(chrom1, chrom2),
                         ContactLine(start1, start2, inc2))

\* Mutant: the line carries inc1, the read count of the cluster.
add_contact_to_list_Inc1(lists, cluster_id, chrom1, start1, chrom2, start2, inc1, inc2) ==
    IF ~ValidChrom(chrom1) \/ ~ValidChrom(chrom2) THEN lists
    ELSE IF StrGreater(chrom1, chrom2)
         THEN AppendLine(lists, ContactKey(chrom2, chrom1),
                         ContactLine(start2, start1, inc1))
         ELSE AppendLine(lists, ContactKey(chrom1, chrom2),
                         ContactLine(start1, start2, inc1))

\* Lines 74-83. The value is the contact store after the call.
add_contact_to_list(lists, cluster_id, chrom1, start1, chrom2, start2, inc1, inc2) ==
    IF ~ValidChrom(chrom1) \/ ~ValidChrom(chrom2) THEN lists
    ELSE IF StrGreater(chrom1, chrom2)
         THEN AppendLine(lists, ContactKey(chrom2, chrom1),
                         ContactLine(start2, start1, inc2))
         ELSE AppendLine(lists, ContactKey(chrom1, chrom2),
                         ContactLine(start1, start2, inc2))

\* The orders in which one set may be iterated.
SetOrders(S) ==
    {q \in [1..Cardinality(S) -> S] : \A i, j \in DOMAIN q : q[i] = q[j] => i = j}

\* One iteration order for the bin set of every chromosome of the cluster.
BinOrders(bins) ==
    {it \in [1..Len(bins.sets) -> UNION {SetOrders(bins.sets[i]) : i \in 1..Len(bins.sets)}] :
        \A i \in 1..Len(bins.sets) : it[i] \in SetOrders(bins.sets[i])}

\* A sequence listing the index pairs <<i, j>> of IJ in increasing order.
RECURSIVE PairSeq(_)
PairSeq(IJ) ==
    IF IJ = {} THEN <<>>
    ELSE LET m == CHOOSE p \in IJ : \A q \in IJ :
                      p[1] < q[1] \/ (p[1] = q[1] /\ p[2] <= q[2])
         IN  <<m>> \o PairSeq(IJ \ {m})

\* itertools.combinations(range(n), 2)
Combinations2(n) == PairSeq({p \in (1..n) \X (1..n) : p[1] < p[2]})

\* itertools.product(range(m), range(n)): the nested loops of lines 165-166.
Product(m, n) == PairSeq((1..m) \X (1..n))

Call(chrom1, start1, chrom2, start2, inc1, inc2) ==
    [chrom1 |-> chrom1, start1 |-> start1, chrom2 |-> chrom2, start2 |-> start2,
     inc1 |-> inc1, inc2 |-> inc2]

\* Mutant: only neighbouring positions are paired.
IntraCallsOf_Neighbours(bins, iter, reads_len, i) ==
    LET inc1 == Cardinality(bins.sets[i])
    IN  IF inc1 > 1
        THEN [k \in 1..(Len(iter[i]) - 1) |->
                Call(bins.order[i], iter[i][k], bins.order[i], iter[i][k + 1],
                     reads_len, Cardinality(bins.sets[i]))]
        ELSE <<>>

\* Mutant: two nested loops over the bin set, every position with every one.
IntraCallsOf_Nested(bins, iter, reads_len, i) ==
    LET inc1 == Cardinality(bins.sets[i])
        pr == Product(Len(iter[i]), Len(iter[i]))
    IN  IF inc1 > 1
        THEN [k \in 1..Len(pr) |->
                Call(bins.order[i], iter[i][pr[k][1]],
                     bins.order[i], iter[i][pr[k][2]],
                     reads_len, Cardinality(bins.sets[i]))]
        ELSE <<>>

\* Lines 147-152: the calls of add_contact_to_list made for chromosome i.
IntraCallsOf(bins, iter, reads_len, i) ==
    LET inc1 == Cardinality(bins.sets[i])
        c2 == Combinations2(Len(iter[i]))
    IN  IF inc1 > 1
        THEN [k \in 1..Len(c2) |->
                Call(bins.order[i], iter[i][c2[k][1]],
                     bins.order[i], iter[i][c2[k][2]],
                     reads_len, Cardinality(bins.sets[i]))]
        ELSE <<>>

\* Mutant: the two bin sets are walked in step, not crossed.
InterCallsOf_Zip(bins, iter, reads_len, i, j) ==
    LET inc1 == Cardinality(bins.sets[i]) + Cardinality(bins.sets[j])
        inc2 == inc1
        n == IF Len(iter[i]) < Len(iter[j]) THEN Len(iter[i]) ELSE Len(iter[j])
    IN  [k \in 1..n |->
            Call(bins.order[i], iter[i][k], bins.order[j], iter[j][k],
                 reads_len, inc2)]

\* Lines 161-167: the calls made for the chromosomes i and j.
InterCallsOf(bins, iter, reads_len, i, j) ==
    LET inc1 == Cardinality(bins.sets[i]) + Cardinality(bins.sets[j])
        inc2 == inc1
        pr == Product(Len(iter[i]), Len(iter[j]))
    IN  [k \in 1..Len(pr) |->
            Call(bins.order[i], iter[i][pr[k][1]],
                 bins.order[j], iter[j][pr[k][2]],
                 reads_len, inc2)]

RECURSIVE Flatten(_)
Flatten(seqs) == IF seqs = <<>> THEN <<>> ELSE Head(seqs) \o Flatten(Tail(seqs))

\* Lines 147-167: every call made for one cluster, in program order.
ContactCalls(bins, iter, reads_len) ==
    LET n == Len(bins.order)
        ij == Combinations2(n)
        intra == Flatten([i \in 1..n |-> IntraCallsOf(bins, iter, reads_len, i)])
        inter == IF n > 1
                 THEN Flatten([k \in 1..Len(ij) |->
                         InterCallsOf(bins, iter, reads_len, ij[k][1], ij[k][2])])
                 ELSE <<>>
    IN  intra \o inter

RECURSIVE AddContacts(_, _, _)
AddContacts(lists, cluster_id, calls) ==
    IF calls = <<>> THEN lists
    ELSE LET c == Head(calls)
         IN  AddContacts(
                 add_contact_to_list(lists, cluster_id, c.chrom1, c.start1,
                                     c.chrom2, c.start2, c.inc1, c.inc2),
                 cluster_id, Tail(calls))

\* Mutant: the lower bound is not tested.
SizeOk_NoLower(reads_len, lo, hi) == reads_len <= hi

\* Line 125: the size filter.
SizeOk(reads_len, lo, hi) == lo <= reads_len /\ reads_len <= hi

(* ------------------------------ actions ------------------------------- *)

Init ==
    /\ chromosome_list \in Registries
    /\ start_only \in BOOLEAN
    /\ \E b \in SizeBounds : min_cluster_size = b[1] /\ max_cluster_size = b[2]
    /\ contact_lists = <<>>
    /\ pc = "init"
    /\ cluster_file = <<>>
    /\ meta_written = FALSE
    /\ db_created = FALSE
    /\ pending = <<>>
    /\ table = <<>>
    /\ files = <<>>
    /\ last_call = NoCall

\* Lines 93-117: the output directory, meta.json, the database and its table.
Setup ==
    /\ pc = "init"
    /\ pc' = "loop"
    /\ meta_written' = TRUE
    /\ db_created' = TRUE
    /\ UNCHANGED <<args, contact_lists, cluster_file, pending, table, files,
                   last_call>>

\* The lines the cluster file may hold next.
NextLines ==
    {<<>>} \cup
    UNION {{<<id>> \o reads : id \in ClusterIds, reads \in [1..n -> ReadTokens(start_only)]} :
              n \in 0..(MaxTokens - TokenCount(cluster_file))}

\* Lines 120-167: one iteration of the loop over the lines of the file.
ProcessLine ==
    /\ pc = "loop"
    /\ Len(cluster_file) < MaxLines
    /\ \E line \in NextLines :
        LET reads == ReadsOf(line)
            reads_len == Len(reads)
        IN
        /\ cluster_file' = Append(cluster_file, line)
        /\ IF line = <<>>
           THEN \* data_split[0] raises IndexError
                /\ pc' = "failed"
                /\ UNCHANGED <<contact_lists, pending>>
           ELSE IF ~SizeOk(reads_len, min_cluster_size, max_cluster_size)
           THEN \* continue
                /\ pc' = "loop"
                /\ UNCHANGED <<contact_lists, pending>>
           ELSE LET cluster_id == line[1]
                    r == ReadLoop(reads, cluster_id, start_only, EmptyBins, <<>>)
                IN  /\ pending' = pending \o r.rows
                    /\ IF ~r.ok
                       THEN /\ pc' = "failed"
                            /\ UNCHANGED contact_lists
                       ELSE /\ pc' = "loop"
                            /\ \E iter \in BinOrders(r.bins) :
                                 contact_lists' =
                                     AddContacts(contact_lists, cluster_id,
                                         ContactCalls(r.bins, iter, reads_len))
    /\ UNCHANGED <<args, meta_written, db_created, table, files, last_call>>

\* f"{contact_key}.txt"
FileName(contact_key) == contact_key \o <<".", "t", "x", "t">>

\* Lines 183-186: one file per key, its lines joined by newlines.
ContactFiles(lists) ==
    [name \in {FileName(k) : k \in DOMAIN lists} |->
        LET k == CHOOSE key \in DOMAIN lists : FileName(key) = name
        IN  Join(lists[k], <<"\n">>)]

\* Line 169, reached when the file has no further line.
write_contact_files ==
    /\ pc = "loop"
    /\ pc' = "commit"
    /\ files' = ContactFiles(contact_lists)
    /\ UNCHANGED <<args, contact_lists, cluster_file, meta_written, db_created,
                   pending, table, last_call>>

\* Lines 170-171: conn.commit() and conn.close().
Commit ==
    /\ pc = "commit"
    /\ pc' = "done"
    /\ table' = table \o pending
    /\ pending' = <<>>
    /\ UNCHANGED <<args, contact_lists, cluster_file, meta_written, db_created,
                   files, last_call>>

Next == Setup \/ ProcessLine \/ write_contact_files \/ Commit

Spec == Init /\ [][Next]_vars

(* --------------- add_contact_to_list called on its own ---------------- *)

\* Largest number of direct calls of add_contact_to_list.
MaxCalls == 2

\* One call of add_contact_to_list on the constructed object, with any
\* chromosome names, positions and weight.
CanonCall ==
    /\ pc = "init"
    /\ last_call.n < MaxCalls
    /\ \E chrom1 \in {ChromAB, ChromB}, chrom2 \in {ChromAB, ChromB},
          start1 \in 1..2, start2 \in 1..2, inc2 \in 2..3 :
        /\ last_call' = [made |-> TRUE, n |-> last_call.n + 1,
                         chrom1 |-> chrom1, start1 |-> start1,
                         chrom2 |-> chrom2, start2 |-> start2,
                         inc1 |-> 9, inc2 |-> inc2, before |-> contact_lists]
        /\ contact_lists' =
               add_contact_to_list(contact_lists, <<"x">>, chrom1, start1,
                                   chrom2, start2, 9, inc2)
    /\ UNCHANGED <<args, pc, cluster_file, meta_written, db_created, pending,
                   table, files>>

NextCanon == CanonCall

SpecCanon == Init /\ [][NextCanon]_vars

(* ------------------- vocabulary of the properties --------------------- *)

\* What the well-formed tokens of the input say, read off their text.
ReadChrom(t) == IF t \in {FullAB1, StartAB1} THEN ChromAB ELSE ChromB

ReadStart(t) ==
    IF t \in {FullB2, StartB2} THEN 2
    ELSE IF t \in {FullB3, StartB3} THEN 3
    ELSE 1

WellFormed(t) == IF start_only THEN t \in StartOnlyTokens ELSE t \in FullTokens

AllWellFormed(reads) == \A i \in 1..Len(reads) : WellFormed(reads[i])

InRange(n) == min_cluster_size <= n /\ n <= max_cluster_size

\* The chromosomes of a cluster and the unique start positions on each.
ChromsIn(reads) == {ReadChrom(reads[i]) : i \in 1..Len(reads)}

StartsOn(reads, chrom) ==
    {ReadStart(reads[i]) : i \in {j \in 1..Len(reads) : ReadChrom(reads[j]) = chrom}}

KeyABAB == <<"a", "b", "-", "a", "b">>

KeyABB == <<"a", "b", "-", "b">>

KeyBB == <<"b", "-", "b">>

IntraKey(chrom) == IF chrom = ChromAB THEN KeyABAB ELSE KeyBB

LinesAt(lists, key) == IF key \in DOMAIN lists THEN lists[key] ELSE <<>>

\* The integer fields of a contact line.
Fields(line) ==
    LET f == Split(line, ",") IN [i \in 1..Len(f) |-> ParseInt(f[i])]

IsPrefix(s, t) == Len(s) <= Len(t) /\ SubSeq(t, 1, Len(s)) = s

\* A step that reads one line of the cluster file; NewLine is that line.
StepLine == pc = "loop" /\ Len(cluster_file') = Len(cluster_file) + 1

NewLine == cluster_file'[Len(cluster_file')]

NewReads == ReadsOf(NewLine)

\* A step that reads a cluster passing the size filter, all reads well-formed.
StepCluster ==
    /\ StepLine
    /\ NewLine # <<>>
    /\ InRange(Len(NewReads))
    /\ AllWellFormed(NewReads)

\* Lines appended under a key by the step.
Added(key) == Len(LinesAt(contact_lists', key)) - Len(LinesAt(contact_lists, key))

RECURSIVE PassingTokenCount(_)
PassingTokenCount(lines) ==
    IF lines = <<>> THEN 0
    ELSE (IF InRange(Len(ReadsOf(Head(lines)))) THEN Len(ReadsOf(Head(lines))) ELSE 0)
         + PassingTokenCount(Tail(lines))

(* ------------------------------- C1 ----------------------------------- *)

C2_FilteredClusterNoContacts ==
    [][(StepLine /\ NewLine # <<>> /\ ~InRange(Len(NewReads)))
          => contact_lists' = contact_lists]_vars

\* A rejected cluster of two well-formed reads at distinct positions of a
\* registered chromosome has been read, and the store is still empty.
C2_Witness ==
    /\ pc = "loop"
    /\ Len(cluster_file) = 1
    /\ min_cluster_size = 3
    /\ ChromB \in chromosome_list
    /\ ReadsOf(data_split) \in {<<FullB1, FullB2>>, <<StartB1, StartB2>>}
    /\ AllWellFormed(ReadsOf(data_split))
    /\ contact_lists = <<>>

(* ------------------------------- C3 ----------------------------------- *)

Pairs(k) == (k * (k - 1)) \div 2

\* C3 as stated: a cluster that passes the size filter appends exactly
\* k*(k-1)/2 lines to '<chrom>-<chrom>' for every chromosome appearing in it
\* with k unique start positions. Refuted for a chromosome that is not in
\* the size registry: line 75 drops its contacts.
C3_IntraCountAnyChrom ==
    [][StepCluster =>
          \A c \in ChromsIn(NewReads) :
              Added(IntraKey(c)) = Pairs(Cardinality(StartsOn(NewReads, c)))]_vars

\* C3 amended: a cluster that passes the size filter appends exactly
\* k*(k-1)/2 lines to '<chrom>-<chrom>' for every chromosome of the size
\* registry appearing in it with k unique start positions, and none for a
\* chromosome outside the registry.
C3_IntraCountRegistered ==
    [][StepCluster =>
          \A c \in ChromsIn(NewReads) :
              Added(IntraKey(c)) =
                  IF c \in chromosome_list
                  THEN Pairs(Cardinality(StartsOn(NewReads, c)))
                  ELSE 0]_vars

\* A cluster with three unique positions on a registered chromosome has been
\* read and its three pairs are in the store.
C3_Witness ==
    /\ pc = "loop"
    /\ Len(cluster_file) = 1
    /\ AllWellFormed(ReadsOf(data_split))
    /\ InRange(Len(ReadsOf(data_split)))
    /\ ChromB \in chromosome_list
    /\ Cardinality(StartsOn(ReadsOf(data_split), ChromB)) = 3
    /\ Len(LinesAt(contact_lists, KeyBB)) = 3

(* ------------------------------- C4 ----------------------------------- *)

\* C4 as stated: a cluster that passes the size filter appends exactly m*n
\* lines between every two distinct chromosomes present in it with m and n
\* unique start positions. Refuted when one of the two is not in the size
\* registry: line 75 drops the contacts.
C4_InterCountAnyPair ==
    [][StepCluster =>
          (ChromsIn(NewReads) = {ChromAB, ChromB} =>
              Added(KeyABB) = Cardinality(StartsOn(NewReads, ChromAB))
                              * Cardinality(StartsOn(NewReads, ChromB)))]_vars

\* C4 amended: a cluster that passes the size filter appends exactly m*n
\* lines between every two distinct chromosomes of the size registry present
\* in it with m and n unique start positions, and none for a pair with a
\* chromosome outside the registry.
C4_InterCountRegistered ==
    [][StepCluster =>
          (ChromsIn(NewReads) = {ChromAB, ChromB} =>
              Added(KeyABB) =
                  IF {ChromAB, ChromB} \subseteq chromosome_list
                  THEN Cardinality(StartsOn(NewReads, ChromAB))
                       * Cardinality(StartsOn(NewReads, ChromB))
                  ELSE 0)]_vars

\* A cluster with one position on one registered chromosome and two on the
\* other has been read, and the two contacts between them are in the store.
C4_Witness ==
    /\ pc = "loop"
    /\ Len(cluster_file) = 1
    /\ AllWellFormed(ReadsOf(data_split))
    /\ InRange(Len(ReadsOf(data_split)))
    /\ chromosome_list = {ChromAB, ChromB}
    /\ Cardinality(StartsOn(ReadsOf(data_split), ChromAB)) = 1
    /\ Cardinality(StartsOn(ReadsOf(data_split), ChromB)) = 2
    /\ Len(LinesAt(contact_lists, KeyABB)) = 2

(* ------------------------------- C5 ----------------------------------- *)

\* The store after the last call made with the two endpoints exchanged.
SwappedCall ==
    add_contact_to_list(last_call.before, <<"x">>,
                        last_call.chrom2, last_call.start2,
                        last_call.chrom1, last_call.start1,
                        last_call.inc1, last_call.inc2)

\* C5 as stated: for all registered chromosome names A and B,
\* add_contact_to_list(A, p, B, q, w) and add_contact_to_list(B, q, A, p, w)
\* append the identical line under the identical key. Refuted for A = B with
\* p # q: the positions of one chromosome are never reordered.
C5_SymmetricAnyPair ==
    last_call.made => SwappedCall = contact_lists

\* C5 amended: for all registered chromosome names A # B,
\* add_contact_to_list(A, p, B, q, w) and add_contact_to_list(B, q, A, p, w)
\* append the identical line under the identical key, and every key has the
\* lexicographically smaller chromosome name first.
C5_SymmetricDistinctPair ==
    /\ (last_call.made /\ last_call.chrom1 # last_call.chrom2)
          => SwappedCall = contact_lists
    /\ DOMAIN contact_lists \subseteq {KeyABAB, KeyABB, KeyBB}
    /\ (/\ last_call.made
        /\ {last_call.chrom1, last_call.chrom2} = {ChromAB, ChromB}
        /\ chromosome_list = {ChromAB, ChromB})
          => /\ Len(LinesAt(contact_lists, KeyABB))
                    = Len(LinesAt(last_call.before, KeyABB)) + 1
             /\ Fields(contact_lists[KeyABB][Len(contact_lists[KeyABB])])
                    = IF last_call.chrom1 = ChromAB
                      THEN <<last_call.start1, last_call.start2, last_call.inc2>>
                      ELSE <<last_call.start2, last_call.start1, last_call.inc2>>

\* The call (b, 2, ab, 1, w) has been made: its line is 1,2,w under ab-b.
C5_Witness ==
    /\ last_call.made
    /\ last_call.chrom1 = ChromB
    /\ last_call.chrom2 = ChromAB
    /\ last_call.start1 = 2
    /\ last_call.start2 = 1
    /\ KeyABB \in DOMAIN contact_lists
    /\ contact_lists[KeyABB][Len(contact_lists[KeyABB])]
           = <<"1", ",", "2", ",">> \o IntToStr(last_call.inc2)

(* ------------------------------- C6 ----------------------------------- *)

NamesRegistered(key) ==
    \E c1 \in chromosome_list, c2 \in chromosome_list : key = c1 \o <<"-">> \o c2

\* C6: every key of the contact store, and every contact file written, names
\* two chromosomes of the size registry; a contact with a chromosome outside
\* the registry leaves no trace and does not stop the run.
C6_KeysRegistered ==
    /\ \A key \in DOMAIN contact_lists : NamesRegistered(key)
    /\ \A name \in DOMAIN files :
          \E key \in DOMAIN contact_lists :
              NamesRegistered(key) /\ name = key \o <<".", "t", "x", "t">>

\* A run has completed that read a cluster pairing a registered chromosome
\* with an unregistered one; no key was created for it.
C6_Witness ==
    /\ pc = "done"
    /\ chromosome_list = {ChromAB}
    /\ Len(cluster_file) = 1
    /\ AllWellFormed(ReadsOf(data_split))
    /\ InRange(Len(ReadsOf(data_split)))
    /\ ChromsIn(ReadsOf(data_split)) = {ChromAB, ChromB}
    /\ Cardinality(StartsOn(ReadsOf(data_split), ChromB)) = 2
    /\ contact_lists = <<>>
    /\ files = <<>>

(* ------------------------------- C7 ----------------------------------- *)

\* The weight a line under the key must carry for the cluster just read.
ExpectedWeight(key, reads) ==
    IF key = KeyBB THEN Cardinality(StartsOn(reads, ChromB))
    ELSE IF key = KeyABAB THEN Cardinality(StartsOn(reads, ChromAB))
    ELSE Cardinality(StartsOn(reads, ChromAB)) + Cardinality(StartsOn(reads, ChromB))

\* C7: the third field of every contact line a cluster appends is the number
\* of unique start positions of the cluster on the chromosome of an
\* intrachromosomal key, and the sum of the two numbers for an
\* interchromosomal key; it is not the read count of the cluster.
C7_WeightIsBinSize ==
    [][StepCluster =>
          \A key \in DOMAIN contact_lists' :
              \A i \in (Len(LinesAt(contact_lists, key)) + 1)..Len(contact_lists'[key]) :
                  /\ Len(Fields(contact_lists'[key][i])) = 3
                  /\ Fields(contact_lists'[key][i])[3] = ExpectedWeight(key, NewReads)]_vars

\* A cluster of three reads with two unique positions on one chromosome has
\* been read: its contact has weight 2, not 3.
C7_Witness ==
    /\ pc = "loop"
    /\ Len(cluster_file) = 1
    /\ AllWellFormed(ReadsOf(data_split))
    /\ Len(ReadsOf(data_split)) = 3
    /\ InRange(3)
    /\ ChromsIn(ReadsOf(data_split)) = {ChromB}
    /\ Cardinality(StartsOn(ReadsOf(data_split), ChromB)) = 2
    /\ Len(LinesAt(contact_lists, KeyBB)) = 1
    /\ Fields(contact_lists[KeyBB][1])[3] = 2

(* ------------------------------- C8 ----------------------------------- *)

NoSelfPair ==
    \A key \in DOMAIN contact_lists \cap {KeyABAB, KeyBB} :
        \A i \in 1..Len(contact_lists[key]) :
            Fields(contact_lists[key][i])[1] # Fields(contact_lists[key][i])[2]

\* The cluster has all its reads at one start of one chromosome.
SinglePosition(line) ==
    /\ line # <<>>
    /\ AllWellFormed(ReadsOf(line))
    /\ Cardinality({<<ReadChrom(ReadsOf(line)[i]), ReadStart(ReadsOf(line)[i])>> :
                        i \in 1..Len(ReadsOf(line))}) <= 1

\* C8: no line under a '<chrom>-<chrom>' key pairs a position with itself,
\* and clusters whose reads all sit at one chrom:start, such as two reads at
\* an identical chrom:start that pass the size filter, append nothing.
C8_NoSelfPair ==
    /\ NoSelfPair
    /\ (\A i \in 1..Len(cluster_file) : SinglePosition(cluster_file[i]))
          => contact_lists = <<>>

\* A cluster of two reads at the same position of a registered chromosome
\* passed the filter and left the store empty; its rows were inserted.
C8_Witness ==
    /\ pc = "loop"
    /\ Len(cluster_file) = 1
    /\ ReadsOf(data_split) \in {<<FullB1, FullB1>>, <<StartB1, StartB1>>}
    /\ AllWellFormed(ReadsOf(data_split))
    /\ InRange(2)
    /\ ChromB \in chromosome_list
    /\ Len(pending) = 2
    /\ contact_lists = <<>>

(* ------------------------------- C9 ----------------------------------- *)

RECURSIVE SumOver(_, _)
SumOver(f, S) ==
    IF S = {} THEN 0
    ELSE LET x == CHOOSE y \in S : TRUE IN f[x] + SumOver(f, S \ {x})

TotalLines(lists) == SumOver([k \in DOMAIN lists |-> Len(lists[k])], DOMAIN lists)

\* The contacts a cluster must add, counted with multiplicity.
ExpectedContacts(reads) ==
    LET present == ChromsIn(reads) \cap chromosome_list
        k == [c \in present |-> Cardinality(StartsOn(reads, c))]
    IN  SumOver([c \in present |-> Pairs(k[c])], present)
        + (IF present = {ChromAB, ChromB} THEN k[ChromAB] * k[ChromB] ELSE 0)

\* The contact files hold exactly the store, one line of text per contact.
FilesHoldStore ==
    /\ DOMAIN files = {key \o <<".", "t", "x", "t">> : key \in DOMAIN contact_lists}
    /\ \A key \in DOMAIN contact_lists :
          Split(files[key \o <<".", "t", "x", "t">>], "\n") = contact_lists[key]

\* C9: every step leaves each key's lines as a prefix of its new lines, a
\* cluster adds all its contacts whether or not equal lines are already in
\* the store, and the store is written to files once: in the step that
\* follows the last line read, before the commit, and never again.
C9_GrowOnlyWrittenOnce ==
    [][/\ \A key \in DOMAIN contact_lists :
              /\ key \in DOMAIN contact_lists'
              /\ IsPrefix(contact_lists[key], contact_lists'[key])
       /\ StepCluster
             => TotalLines(contact_lists') - TotalLines(contact_lists)
                    = ExpectedContacts(NewReads)
       /\ files' # files => (pc = "loop" /\ pc' = "commit")
       /\ pc' \in {"init", "loop", "failed"} => files' = <<>>
       /\ pc = "commit"
             => /\ FilesHoldStore
                /\ pc' = "done"
                /\ files' = files
                /\ contact_lists' = contact_lists
                /\ cluster_file' = cluster_file
       /\ pc = "done" => pc' = "done"
       /\ table' # table => pc = "commit"]_vars

\* A completed run read the same cluster twice: its contact is in the store
\* and in the file twice.
C9_Witness ==
    /\ pc = "done"
    /\ Len(cluster_file) = 2
    /\ cluster_file[1] = cluster_file[2]
    /\ Len(LinesAt(contact_lists, KeyBB)) = 2
    /\ contact_lists[KeyBB][1] = contact_lists[KeyBB][2]
    /\ DOMAIN files = {KeyBB \o <<".", "t", "x", "t">>}
    /\ Len(Split(files[KeyBB \o <<".", "t", "x", "t">>], "\n")) = 2
    /\ Len(table) > 0

(* ------------------------------- C10 ---------------------------------- *)

\* The reads the parser of the selected mode raises on, read off their text:
\* FullEndX splits into a name, a chromosome, a start and an end.
ParseRaises(t) ==
    IF start_only THEN t \notin StartOnlyTokens
    ELSE t \notin FullTokens \cup {FullEndX}

Raising(reads) == {i \in 1..Len(reads) : ParseRaises(reads[i])}

\* C10 as stated: a read that is malformed for the selected mode, in a
\* cluster that passes the size filter, ends the run at that read; in a
\* cluster the filter rejects it is not parsed. Refuted by a full-mode read
\* whose end is not a number: lines 136-138 never convert the end, the row
\* is inserted and the run goes on.
C10_MalformedReadAborts ==
    [][/\ pc # "failed"
       /\ (StepLine /\ NewLine # <<>> /\ ~AllWellFormed(NewReads))
             => IF InRange(Len(NewReads))
                THEN /\ pc' = "failed"
                     /\ contact_lists' = contact_lists
                ELSE /\ pc' = "loop"
                     /\ pending' = pending
                     /\ contact_lists' = contact_lists
       /\ pc' = "failed"
             => /\ files' = <<>>
                /\ table' = <<>>
                /\ meta_written'
                /\ db_created']_vars

\* C10 amended: a read on which the parser of the selected mode raises, in a
\* cluster that passes the size filter, ends the run at that read: the rows
\* of the reads before it are inserted and never committed, the store is
\* unchanged, no contact file is written, meta.json and the database exist,
\* and nothing runs afterwards. A cluster that passes the filter and whose
\* reads all parse, a non-numeric end included, inserts a row per read and
\* the run goes on. A cluster the size filter rejects is not parsed and the
\* run goes on.
C10_UnparsableReadAborts ==
    [][/\ pc # "failed"
       /\ (StepLine /\ NewLine # <<>>)
             => IF ~InRange(Len(NewReads))
                THEN /\ pc' = "loop"
                     /\ pending' = pending
                     /\ contact_lists' = contact_lists
                ELSE IF Raising(NewReads) # {}
                THEN /\ pc' = "failed"
                     /\ contact_lists' = contact_lists
                     /\ Len(pending') = Len(pending) + Min(Raising(NewReads)) - 1
                ELSE /\ pc' = "loop"
                     /\ Len(pending') = Len(pending) + Len(NewReads)
       /\ pc' = "failed"
             => /\ files' = <<>>
                /\ table' = <<>>
                /\ meta_written'
                /\ db_created']_vars

\* A run failed at the second read of its second cluster: the contact of the
\* first cluster is in the store, three rows are inserted, no file is
\* written and no row is committed.
C10_Witness ==
    /\ pc = "failed"
    /\ Len(cluster_file) = 2
    /\ InRange(Len(ReadsOf(data_split)))
    /\ Len(ReadsOf(data_split)) = 2
    /\ WellFormed(ReadsOf(data_split)[1])
    /\ ~WellFormed(ReadsOf(data_split)[2])
    /\ contact_lists # <<>>
    /\ Len(pending) = 3
    /\ table = <<>>
    /\ files = <<>>
    /\ meta_written
    /\ db_created

====
